---- MODULE Spec2Model ----
(***************************************************************************)
(* Fast-Quant-Core: the dual moving-average strategy (strategy.h) and the  *)
(* indicator functions (indicators.h).                                     *)
(*                                                                         *)
(* Numbers.  The C++ code computes in IEEE-754 double.  The model draws    *)
(* prices and data from small integers, on which every sum, difference and *)
(* product the code forms is an integer far below 2^53 and therefore exact *)
(* in double.  A quotient is kept as the exact rational <<num, den>> in    *)
(* lowest terms with den > 0: a correctly rounded division depends only on *)
(* the real quotient, and two different quotients of operands this small   *)
(* differ by far more than one ulp, so  ==, <, <=  on the doubles agree    *)
(* with the same comparisons on the rationals.  Rounding of sums that are  *)
(* not representable (large magnitudes, fractional data) is outside the    *)
(* model.                                                                  *)
(***************************************************************************)
EXTENDS Integers, Sequences, FiniteSets, TLC

\* ------------------------------------------------------------------ bounds
MaxPeriod == 3
MaxTicks == 5
MaxBatch == 2
ScenarioLen == 6
MaxLen == 4

Prices == {0, 5}
Symbols == {"X", "Y"}
\* the prices of the specification's crossover scenario
ScenarioPrices == {1, 5}
\* finite values of indicator input data
DataValues == {-2, 1, 3}
\* std::sqrt is kept to this many parts of one
SqrtScale == 1000
\* the price of a tick for another symbol is never read
OtherPrices == {1}

\* --------------------------------------------------------------- rationals
Abs(x) == IF x < 0 THEN -x ELSE x

RECURSIVE GCD(_, _)
GCD(a, b) == IF b = 0 THEN a ELSE GCD(b, a % b)

\* n / d as a double: the quotient in lowest terms, d # 0
Rat(n, d) ==
    LET g == GCD(Abs(n), Abs(d))
        s == IF d < 0 THEN -1 ELSE 1
    IN  << (s * n) \div g, (s * d) \div g >>

Zero == << 0, 1 >>
FromInt(n) == << n, 1 >>

RAdd(a, b) == Rat(a[1] * b[2] + b[1] * a[2], a[2] * b[2])
RSub(a, b) == Rat(a[1] * b[2] - b[1] * a[2], a[2] * b[2])
RMul(a, b) == Rat(a[1] * b[1], a[2] * b[2])
RDiv(a, b) == Rat(a[1] * b[2], a[2] * b[1])
RLt(a, b) == a[1] * b[2] < b[1] * a[2]
RLe(a, b) == a[1] * b[2] <= b[1] * a[2]
RGt(a, b) == RLt(b, a)
RGe(a, b) == RLe(b, a)

\* std::accumulate(first, last, 0.0) over s[lo..hi]
RECURSIVE Accumulate(_, _, _, _)
Accumulate(s, lo, hi, acc) ==
    IF lo > hi THEN acc ELSE Accumulate(s, lo + 1, hi, acc + s[lo])

\* -------------------------------------------------------------- indicators
\* A double of the input data is <<num, den>>; den = 0 marks a non-finite
\* value: NaN, +infinity, -infinity.
NaN == << 0, 0 >>
Inf == << 1, 0 >>

\* std::isfinite
isfinite(x) == x[2] # 0

\* std::sqrt, truncated to a multiple of 1 / SqrtScale
RECURSIVE ISqrtFrom(_, _)
ISqrtFrom(n, r) == IF (r + 1) * (r + 1) > n THEN r ELSE ISqrtFrom(n, r + 1)

RECURSIVE ISqrt(_)
ISqrt(n) == IF n < 4 THEN ISqrtFrom(n, 0)
            ELSE ISqrtFrom(n, 2 * ISqrt(n \div 4))

sqrt(x) == Rat(ISqrt((x[1] * SqrtScale * SqrtScale) \div x[2]), SqrtScale)

\* std::max(0.0, x)
max0(x) == IF RLt(Zero, x) THEN x ELSE Zero

\* std::accumulate(data.begin() + lo - 1, data.begin() + hi, acc) on doubles
RECURSIVE RAccumulate(_, _, _, _)
RAccumulate(data, lo, hi, acc) ==
    IF lo > hi THEN acc
    ELSE RAccumulate(data, lo + 1, hi, RAdd(acc, data[lo]))

\* the bounds check shared by SMA, EMA and RollingStdDev
BadPeriod(data, period) ==
    period <= 0 \/ data = << >> \/ period > Len(data)

\* the loop that returns empty on the first non-finite value
HasNonFinite(data) == \E i \in 1..Len(data) : ~isfinite(data[i])

\* the sliding loop of SMA dropping the value one place too late
RECURSIVE SMALoopOffByOne(_, _, _, _, _)
SMALoopOffByOne(data, period, i, sum, result) ==
    IF i > Len(data) THEN result
    ELSE LET sum2 == RAdd(RSub(sum, data[i - period + 1]), data[i])
         IN  SMALoopOffByOne(data, period, i + 1, sum2,
                             Append(result, RDiv(sum2, FromInt(period))))

\* the sliding loop of SMA; i is the 1-based index of the entering value
RECURSIVE SMALoop(_, _, _, _, _)
SMALoop(data, period, i, sum, result) ==
    IF i > Len(data) THEN result
    ELSE LET sum2 == RAdd(RSub(sum, data[i - period]), data[i])
         IN  SMALoop(data, period, i + 1, sum2,
                     Append(result, RDiv(sum2, FromInt(period))))

\* Indicators::SMA
SMA(data, period) ==
    IF BadPeriod(data, period) THEN << >>
    ELSE IF HasNonFinite(data) THEN << >>
    ELSE LET sum == RAccumulate(data, 1, period, Zero)
         IN  SMALoop(data, period, period + 1, sum,
                     << RDiv(sum, FromInt(period)) >>)

\* the recurrence loop of EMA smoothing by 1 - multiplier
RECURSIVE EMALoopSwapped(_, _, _, _, _)
EMALoopSwapped(data, multiplier, i, ema, result) ==
    IF i > Len(data) THEN result
    ELSE LET ema2 == RAdd(RMul(RSub(ema, data[i]), multiplier), data[i])
         IN  EMALoopSwapped(data, multiplier, i + 1, ema2,
                            Append(result, ema2))

\* the recurrence loop of EMA; the C++ loop starts at index 1
RECURSIVE EMALoop(_, _, _, _, _)
EMALoop(data, multiplier, i, ema, result) ==
    IF i > Len(data) THEN result
    ELSE LET ema2 == RAdd(RMul(RSub(data[i], ema), multiplier), ema)
         IN  EMALoop(data, multiplier, i + 1, ema2, Append(result, ema2))

\* Indicators::EMA
EMA(data, period) ==
    IF BadPeriod(data, period) THEN << >>
    ELSE IF HasNonFinite(data) THEN << >>
    ELSE LET multiplier == RDiv(FromInt(2), FromInt(period + 1))
             ema == RDiv(RAccumulate(data, 1, period, Zero), FromInt(period))
         IN  EMALoop(data, multiplier, 2, ema, << ema >>)

\* the Welford loop of StdDev from element i on; ok is false once a
\* non-finite value made the function return 0.0
RECURSIVE WelfordLoop(_, _, _, _, _)
WelfordLoop(data, i, mean, m2, count) ==
    IF i > Len(data) THEN [ok |-> TRUE, m2 |-> m2, count |-> count]
    ELSE IF ~isfinite(data[i]) THEN [ok |-> FALSE, m2 |-> m2, count |-> count]
    ELSE LET count2 == count + 1
             delta == RSub(data[i], mean)
             mean2 == RAdd(mean, RDiv(delta, FromInt(count2)))
             delta2 == RSub(data[i], mean2)
         IN  WelfordLoop(data, i + 1, mean2, RAdd(m2, RMul(delta, delta2)),
                         count2)

\* Indicators::StdDev
StdDev(data) ==
    IF data = << >> THEN Zero
    ELSE LET w == WelfordLoop(data, 1, Zero, Zero, 0)
         IN  IF ~w.ok THEN Zero
             ELSE IF w.count < 2 THEN Zero
             ELSE sqrt(RDiv(w.m2, FromInt(w.count)))

\* the first-window loop of RollingStdDev and BollingerBands
RECURSIVE SumX(_, _, _, _)
SumX(data, i, period, sum_x) ==
    IF i > period THEN sum_x ELSE SumX(data, i + 1, period, RAdd(sum_x, data[i]))

RECURSIVE SumX2(_, _, _, _)
SumX2(data, i, period, sum_x2) ==
    IF i > period THEN sum_x2
    ELSE SumX2(data, i + 1, period, RAdd(sum_x2, RMul(data[i], data[i])))

\* mean, variance and standard deviation of a window from its accumulators
WindowStats(sum_x, sum_x2, period) ==
    LET mean == RDiv(sum_x, FromInt(period))
        variance == RSub(RDiv(sum_x2, FromInt(period)), RMul(mean, mean))
    IN  [mean |-> mean, std_dev |-> sqrt(max0(variance))]

\* the accumulators of the first window
FirstWindow(data, period) ==
    [sum_x |-> SumX(data, 1, period, Zero),
     sum_x2 |-> SumX2(data, 1, period, Zero)]

\* the accumulator update that never drops a square
SlideKeepSquare(acc, old_val, new_val) ==
    [sum_x |-> RAdd(RSub(acc.sum_x, old_val), new_val),
     sum_x2 |-> RAdd(acc.sum_x2, RMul(new_val, new_val))]

\* the O(1) update of sum_x and sum_x2 as the window slides
Slide(acc, old_val, new_val) ==
    [sum_x |-> RAdd(RSub(acc.sum_x, old_val), new_val),
     sum_x2 |-> RAdd(RSub(acc.sum_x2, RMul(old_val, old_val)),
                     RMul(new_val, new_val))]

\* the sliding loop of RollingStdDev
RECURSIVE RollingLoop(_, _, _, _, _)
RollingLoop(data, period, i, acc, result) ==
    IF i > Len(data) THEN result
    ELSE LET acc2 == Slide(acc, data[i - period], data[i])
         IN  RollingLoop(data, period, i + 1, acc2,
                         Append(result,
                                WindowStats(acc2.sum_x, acc2.sum_x2,
                                            period).std_dev))

\* Indicators::RollingStdDev
RollingStdDev(data, period) ==
    IF BadPeriod(data, period) THEN << >>
    ELSE IF HasNonFinite(data) THEN << >>
    ELSE LET acc == FirstWindow(data, period)
         IN  RollingLoop(data, period, period + 1, acc,
                         << WindowStats(acc.sum_x, acc.sum_x2,
                                        period).std_dev >>)

\* the three bands, in the order of the returned tuple
Bands(upper, middle, lower) ==
    [upper |-> upper, middle |-> middle, lower |-> lower]

\* the push_back with the lower band one standard deviation below
PushBandsUnitLower(b, st, std_dev_multiplier) ==
    Bands(Append(b.upper, RAdd(st.mean, RMul(std_dev_multiplier, st.std_dev))),
          Append(b.middle, st.mean),
          Append(b.lower, RSub(st.mean, st.std_dev)))

\* one push_back to each band
PushBands(b, st, std_dev_multiplier) ==
    Bands(Append(b.upper, RAdd(st.mean, RMul(std_dev_multiplier, st.std_dev))),
          Append(b.middle, st.mean),
          Append(b.lower, RSub(st.mean, RMul(std_dev_multiplier, st.std_dev))))

\* the sliding loop of BollingerBands
RECURSIVE BollingerLoop(_, _, _, _, _, _)
BollingerLoop(data, period, std_dev_multiplier, i, acc, b) ==
    IF i > Len(data) THEN b
    ELSE LET acc2 == Slide(acc, data[i - period], data[i])
         IN  BollingerLoop(data, period, std_dev_multiplier, i + 1, acc2,
                           PushBands(b,
                                     WindowStats(acc2.sum_x, acc2.sum_x2,
                                                 period),
                                     std_dev_multiplier))

\* the bounds check of BollingerBands without the multiplier test
BadBandsAnyMultiplier(data, period, std_dev_multiplier) ==
    BadPeriod(data, period)

\* the bounds check of BollingerBands
BadBands(data, period, std_dev_multiplier) ==
    BadPeriod(data, period) \/ RLt(std_dev_multiplier, Zero)

\* Indicators::BollingerBands
BollingerBands(data, period, std_dev_multiplier) ==
    IF BadBands(data, period, std_dev_multiplier)
    THEN Bands(<< >>, << >>, << >>)
    ELSE IF HasNonFinite(data) THEN Bands(<< >>, << >>, << >>)
    ELSE LET acc == FirstWindow(data, period)
         IN  BollingerLoop(data, period, std_dev_multiplier, period + 1, acc,
                           PushBands(Bands(<< >>, << >>, << >>),
                                     WindowStats(acc.sum_x, acc.sum_x2,
                                                 period),
                                     std_dev_multiplier))

\* ---------------------------------------------------------------- strategy
BUY == "BUY"
SELL == "SELL"
HOLD == "HOLD"
Signal == {BUY, SELL, HOLD}

\* Tick: the strategy reads symbol and price only
Tick == [symbol : {"X"}, price : Prices] \cup
        [symbol : Symbols \ {"X"}, price : OtherPrices]

VARIABLES
    symbol_, fast_period_, slow_period_,   \* configuration
    prices_, fast_ma_, slow_ma_, last_signal_,
    op,        \* the last call made on the strategy
    arg,       \* the ticks it was given: one for onTick
    ret,       \* the signals the last call returned: one for onTick, one
               \* per tick for backtestOnTicks
    hist,      \* prices of the matching ticks processed so far, in order
    sigs,      \* the signal returned for each of them
    fn,        \* the indicator function called last
    arg_data, arg_period, arg_multiplier,   \* its arguments
    result     \* what it returned

strategyVars == << symbol_, fast_period_, slow_period_, prices_, fast_ma_,
                   slow_ma_, last_signal_, op, arg, ret, hist, sigs >>

indicatorVars == << fn, arg_data, arg_period, arg_multiplier, result >>

vars == << strategyVars, indicatorVars >>

\* the mutable part of a DualMAStrategy object
State == [prices_ |-> prices_, fast_ma_ |-> fast_ma_, slow_ma_ |-> slow_ma_,
          last_signal_ |-> last_signal_]

\* calculateMA averaging the oldest period prices of the buffer
calculateMAFromFront(buf, period) ==
    IF Len(buf) < period
    THEN Zero
    ELSE Rat(Accumulate(buf, 1, period, 0), period)

\* DualMAStrategy::calculateMA on the buffer buf
calculateMA(buf, period) ==
    IF Len(buf) < period
    THEN Zero
    ELSE Rat(Accumulate(buf, Len(buf) - period + 1, Len(buf), 0), period)

\* generateSignal with the golden cross tested by < where the code has <=
generateSignalStrict(s, new_fast_ma, new_slow_ma) ==
    IF s.fast_ma_ = Zero \/ s.slow_ma_ = Zero
    THEN [signal |-> HOLD, last_signal_ |-> HOLD]
    ELSE IF RLt(s.fast_ma_, s.slow_ma_) /\ RGt(new_fast_ma, new_slow_ma)
    THEN [signal |-> BUY, last_signal_ |-> BUY]
    ELSE IF RGe(s.fast_ma_, s.slow_ma_) /\ RLt(new_fast_ma, new_slow_ma)
    THEN [signal |-> SELL, last_signal_ |-> SELL]
    ELSE [signal |-> HOLD, last_signal_ |-> s.last_signal_]

\* generateSignal without the test for a first computation
generateSignalNoPrior(s, new_fast_ma, new_slow_ma) ==
    IF RLe(s.fast_ma_, s.slow_ma_) /\ RGt(new_fast_ma, new_slow_ma)
    THEN [signal |-> BUY, last_signal_ |-> BUY]
    ELSE IF RGe(s.fast_ma_, s.slow_ma_) /\ RLt(new_fast_ma, new_slow_ma)
    THEN [signal |-> SELL, last_signal_ |-> SELL]
    ELSE [signal |-> HOLD, last_signal_ |-> s.last_signal_]

\* DualMAStrategy::generateSignal: the signal and the new last_signal_
generateSignal(s, new_fast_ma, new_slow_ma) ==
    IF s.fast_ma_ = Zero \/ s.slow_ma_ = Zero
    THEN [signal |-> HOLD, last_signal_ |-> HOLD]
    ELSE IF RLe(s.fast_ma_, s.slow_ma_) /\ RGt(new_fast_ma, new_slow_ma)
    THEN [signal |-> BUY, last_signal_ |-> BUY]
    ELSE IF RGe(s.fast_ma_, s.slow_ma_) /\ RLt(new_fast_ma, new_slow_ma)
    THEN [signal |-> SELL, last_signal_ |-> SELL]
    ELSE [signal |-> HOLD, last_signal_ |-> s.last_signal_]

\* onTick without the symbol filter
onTickNoFilter(s, tick) ==
    LET pushed == Append(s.prices_, tick.price)
        buf == IF Len(pushed) > slow_period_ THEN Tail(pushed) ELSE pushed
    IN  IF Len(buf) < slow_period_
        THEN [st |-> [s EXCEPT !.prices_ = buf], signal |-> HOLD]
        ELSE
          LET new_fast_ma == calculateMA(buf, fast_period_)
              new_slow_ma == calculateMA(buf, slow_period_)
              g == generateSignal(s, new_fast_ma, new_slow_ma)
          IN  [st |-> [prices_ |-> buf, fast_ma_ |-> new_fast_ma,
                       slow_ma_ |-> new_slow_ma,
                       last_signal_ |-> g.last_signal_],
               signal |-> g.signal]

\* onTick that evicts only once the buffer is two over its capacity
onTickLateEvict(s, tick) ==
    IF tick.symbol # symbol_
    THEN [st |-> s, signal |-> HOLD]
    ELSE
      LET pushed == Append(s.prices_, tick.price)
          buf == IF Len(pushed) > slow_period_ + 1
                 THEN Tail(pushed) ELSE pushed
      IN  IF Len(buf) < slow_period_
          THEN [st |-> [s EXCEPT !.prices_ = buf], signal |-> HOLD]
          ELSE
            LET new_fast_ma == calculateMA(buf, fast_period_)
                new_slow_ma == calculateMA(buf, slow_period_)
                g == generateSignal(s, new_fast_ma, new_slow_ma)
            IN  [st |-> [prices_ |-> buf, fast_ma_ |-> new_fast_ma,
                         slow_ma_ |-> new_slow_ma,
                         last_signal_ |-> g.last_signal_],
                 signal |-> g.signal]

\* onTick keeping as many prices as the longer of the two periods
onTickKeepLonger(s, tick) ==
    IF tick.symbol # symbol_
    THEN [st |-> s, signal |-> HOLD]
    ELSE
      LET pushed == Append(s.prices_, tick.price)
          cap == IF fast_period_ > slow_period_
                 THEN fast_period_ ELSE slow_period_
          buf == IF Len(pushed) > cap THEN Tail(pushed) ELSE pushed
      IN  IF Len(buf) < slow_period_
          THEN [st |-> [s EXCEPT !.prices_ = buf], signal |-> HOLD]
          ELSE
            LET new_fast_ma == calculateMA(buf, fast_period_)
                new_slow_ma == calculateMA(buf, slow_period_)
                g == generateSignal(s, new_fast_ma, new_slow_ma)
            IN  [st |-> [prices_ |-> buf, fast_ma_ |-> new_fast_ma,
                         slow_ma_ |-> new_slow_ma,
                         last_signal_ |-> g.last_signal_],
                 signal |-> g.signal]

\* onTick storing the new averages only when it returns HOLD
onTickStoreOnHold(s, tick) ==
    IF tick.symbol # symbol_
    THEN [st |-> s, signal |-> HOLD]
    ELSE
      LET pushed == Append(s.prices_, tick.price)
          buf == IF Len(pushed) > slow_period_ THEN Tail(pushed) ELSE pushed
      IN  IF Len(buf) < slow_period_
          THEN [st |-> [s EXCEPT !.prices_ = buf], signal |-> HOLD]
          ELSE
            LET new_fast_ma == calculateMA(buf, fast_period_)
                new_slow_ma == calculateMA(buf, slow_period_)
                g == generateSignal(s, new_fast_ma, new_slow_ma)
            IN  [st |-> [prices_ |-> buf,
                         fast_ma_ |-> IF g.signal = HOLD
                                      THEN new_fast_ma ELSE s.fast_ma_,
                         slow_ma_ |-> IF g.signal = HOLD
                                      THEN new_slow_ma ELSE s.slow_ma_,
                         last_signal_ |-> g.last_signal_],
                 signal |-> g.signal]

\* DualMAStrategy::onTick on object state s: the new state and the signal
onTick(s, tick) ==
    IF tick.symbol # symbol_
    THEN [st |-> s, signal |-> HOLD]
    ELSE
      LET pushed == Append(s.prices_, tick.price)
          buf == IF Len(pushed) > slow_period_ THEN Tail(pushed) ELSE pushed
      IN  IF Len(buf) < slow_period_
          THEN [st |-> [s EXCEPT !.prices_ = buf], signal |-> HOLD]
          ELSE
            LET new_fast_ma == calculateMA(buf, fast_period_)
                new_slow_ma == calculateMA(buf, slow_period_)
                g == generateSignal(s, new_fast_ma, new_slow_ma)
            IN  [st |-> [prices_ |-> buf, fast_ma_ |-> new_fast_ma,
                         slow_ma_ |-> new_slow_ma,
                         last_signal_ |-> g.last_signal_],
                 signal |-> g.signal]

\* the loop calling onTick on the starting state every time
RECURSIVE BacktestLoopNoCarry(_, _, _, _)
BacktestLoopNoCarry(s, ticks, i, out) ==
    IF i > Len(ticks)
    THEN [st |-> IF ticks = << >> THEN s
                 ELSE onTick(s, ticks[Len(ticks)]).st,
          signals |-> out]
    ELSE LET r == onTick(s, ticks[i])
         IN  BacktestLoopNoCarry(s, ticks, i + 1, Append(out, r.signal))

\* the loop of DualMAStrategy::backtestOnTicks from tick i on
RECURSIVE BacktestLoop(_, _, _, _)
BacktestLoop(s, ticks, i, out) ==
    IF i > Len(ticks)
    THEN [st |-> s, signals |-> out]
    ELSE LET r == onTick(s, ticks[i])
         IN  BacktestLoop(r.st, ticks, i + 1, Append(out, r.signal))

backtestOnTicks(s, ticks) == BacktestLoop(s, ticks, 1, << >>)

\* the prices of the ticks of the strategy's symbol, in order
RECURSIVE MatchingPrices(_)
MatchingPrices(ticks) ==
    IF ticks = << >> THEN << >>
    ELSE IF Head(ticks).symbol = symbol_
         THEN << Head(ticks).price >> \o MatchingPrices(Tail(ticks))
         ELSE MatchingPrices(Tail(ticks))

\* the signals returned for the ticks of the strategy's symbol, in order
RECURSIVE MatchingSignals(_, _)
MatchingSignals(ticks, out) ==
    IF ticks = << >> THEN << >>
    ELSE IF Head(ticks).symbol = symbol_
         THEN << Head(out) >> \o MatchingSignals(Tail(ticks), Tail(out))
         ELSE MatchingSignals(Tail(ticks), Tail(out))

Batches == UNION { [1..n -> Tick] : n \in 0..MaxBatch }

\* no indicator function has been called
NoIndicatorCall ==
    /\ fn = "none"
    /\ arg_data = << >>
    /\ arg_period = 0
    /\ arg_multiplier = Zero
    /\ result = << >>

\* DualMAStrategy::DualMAStrategy
Construct(symbol, fast_period, slow_period) ==
    /\ symbol_ = symbol
    /\ fast_period_ = fast_period
    /\ slow_period_ = slow_period
    /\ prices_ = << >>
    /\ fast_ma_ = Zero
    /\ slow_ma_ = Zero
    /\ last_signal_ = HOLD
    /\ op = "construct"
    /\ arg = << >>
    /\ ret = << >>
    /\ hist = << >>
    /\ sigs = << >>

Init ==
    /\ \E fast_period \in 1..MaxPeriod, slow_period \in 1..MaxPeriod :
          Construct("X", fast_period, slow_period)
    /\ NoIndicatorCall

Store(s) ==
    /\ prices_' = s.prices_
    /\ fast_ma_' = s.fast_ma_
    /\ slow_ma_' = s.slow_ma_
    /\ last_signal_' = s.last_signal_

\* a call of onTick, while fewer than cap matching ticks have been processed
CallOnTick(tick, cap) ==
    /\ tick.symbol = symbol_ => Len(hist) < cap
    /\ LET r == onTick(State, tick)
       IN  /\ Store(r.st)
           /\ ret' = << r.signal >>
           /\ hist' = hist \o MatchingPrices(<< tick >>)
           /\ sigs' = sigs \o MatchingSignals(<< tick >>, << r.signal >>)
    /\ op' = "onTick"
    /\ arg' = << tick >>
    /\ UNCHANGED << symbol_, fast_period_, slow_period_, indicatorVars >>

OnTick(tick) == CallOnTick(tick, MaxTicks)

BacktestOnTicks(ticks) ==
    /\ Len(hist) + Len(MatchingPrices(ticks)) <= MaxTicks
    /\ LET r == backtestOnTicks(State, ticks)
       IN  /\ Store(r.st)
           /\ ret' = r.signals
           /\ hist' = hist \o MatchingPrices(ticks)
           /\ sigs' = sigs \o MatchingSignals(ticks, r.signals)
    /\ op' = "backtestOnTicks"
    /\ arg' = ticks
    /\ UNCHANGED << symbol_, fast_period_, slow_period_, indicatorVars >>

Next ==
    \/ \E tick \in Tick : OnTick(tick)
    \/ \E ticks \in Batches : BacktestOnTicks(ticks)

Spec == Init /\ [][Next]_vars

\* ---- the crossover scenario of the specification: fast 2, slow 3 on "X"
ScenarioTick == [symbol : Symbols, price : ScenarioPrices]

ScenarioInit == Construct("X", 2, 3) /\ NoIndicatorCall

ScenarioOnTick(tick) == CallOnTick(tick, ScenarioLen)

ScenarioNext == \E tick \in ScenarioTick : ScenarioOnTick(tick)

ScenarioSpec == ScenarioInit /\ [][ScenarioNext]_vars

\* ---- calls of the indicator functions on bounded inputs
Data == { FromInt(v) : v \in DataValues } \cup { NaN, Inf }
DataSeqs == UNION { [1..n -> Data] : n \in 0..MaxLen }
Periods == -1..(MaxLen + 1)
Multipliers == { FromInt(-1), Zero, FromInt(2) }

IndInit ==
    /\ Construct("X", 1, 1)
    /\ fn = "none"
    /\ arg_data \in DataSeqs
    /\ arg_period \in Periods
    /\ arg_multiplier \in Multipliers
    /\ result = << >>

Call(f, value) ==
    /\ fn' = f
    /\ result' = value
    /\ UNCHANGED << arg_data, arg_period, arg_multiplier, strategyVars >>

CallSMA == Call("SMA", SMA(arg_data, arg_period))
CallEMA == Call("EMA", EMA(arg_data, arg_period))
CallStdDev == Call("StdDev", StdDev(arg_data))
CallRollingStdDev ==
    Call("RollingStdDev", RollingStdDev(arg_data, arg_period))
CallBollingerBands ==
    Call("BollingerBands",
         BollingerBands(arg_data, arg_period, arg_multiplier))

IndNext ==
    \/ CallSMA
    \/ CallEMA
    \/ CallStdDev
    \/ CallRollingStdDev
    \/ CallBollingerBands

IndSpec == IndInit /\ [][IndNext]_vars

\* ------------------------------------------------------- strategy: claims
Min(a, b) == IF a < b THEN a ELSE b

\* the last n elements of s
LastN(s, n) == SubSeq(s, Len(s) - n + 1, Len(s))

\* the crossover rule as the specification words it
Step5(pf, ps, nf, ns) ==
    IF pf = Zero /\ ps = Zero THEN HOLD
    ELSE IF RLe(pf, ps) /\ RGt(nf, ns) THEN BUY
    ELSE IF RGe(pf, ps) /\ RLt(nf, ns) THEN SELL
    ELSE HOLD

\* C1: every onTick of a matching tick that leaves the buffer full returns
\* the signal the specification's rule gives for the averages stored before
\* the call (pf, ps) and the averages computed by it (nf, ns); the rule
\* holds back only when pf and ps are both zero.
C1_SignalIsStep5 ==
    [][ (op' = "onTick" /\ arg'[1].symbol = symbol_
            /\ Len(prices_') = slow_period_)
          => ret' = << Step5(fast_ma_, slow_ma_, fast_ma_', slow_ma_') >> ]_vars

\* C2: fast 2, slow 3, prices 1,1,1,5,5,1 for "X" give
\* HOLD, HOLD, HOLD, BUY, HOLD, SELL.
C2_Scenario ==
    (symbol_ = "X" /\ fast_period_ = 2 /\ slow_period_ = 3
        /\ hist = << 1, 1, 1, 5, 5, 1 >>)
      => sigs = << HOLD, HOLD, HOLD, BUY, HOLD, SELL >>

C2_Witness ==
    /\ symbol_ = "X"
    /\ fast_period_ = 2
    /\ slow_period_ = 3
    /\ hist = << 1, 1, 1, 5, 5, 1 >>
    /\ op = "onTick"
    /\ arg = << [symbol |-> "X", price |-> 1] >>

\* C3: onTick with a tick of another symbol returns HOLD and leaves the
\* buffer and both stored averages as they were.
C3_OtherSymbolIgnored ==
    [][ (op' = "onTick" /\ arg'[1].symbol # symbol_)
          => /\ ret' = << HOLD >>
             /\ prices_' = prices_
             /\ fast_ma_' = fast_ma_
             /\ slow_ma_' = slow_ma_ ]_vars

C3_Witness ==
    /\ op = "onTick"
    /\ arg[1].symbol # symbol_
    /\ Len(prices_) = slow_period_
    /\ fast_ma_ # Zero
    /\ slow_ma_ # Zero

\* C4: the buffer holds the last min(k, slow_period) matching prices in
\* arrival order, is never longer than slow_period after a call, and once
\* full stays full.
C4_Buffer ==
    /\ [](/\ prices_ = LastN(hist, Min(Len(hist), slow_period_))
          /\ Len(prices_) <= slow_period_)
    /\ [][ Len(prices_) = slow_period_ => Len(prices_') = slow_period_ ]_vars

C4_Witness ==
    /\ Len(hist) > slow_period_
    /\ slow_period_ >= 2
    /\ \E i \in 1..(Len(prices_) - 1) : prices_[i] # prices_[i + 1]

\* C5: none of the first slow_period matching observations of a fresh
\* strategy returns BUY or SELL.
C5_NoSignalInWarmUp ==
    \A i \in 1..Len(sigs) : i <= slow_period_ => sigs[i] = HOLD

C5_Witness ==
    /\ Len(sigs) > slow_period_
    /\ slow_period_ >= 2
    /\ sigs[slow_period_ + 1] # HOLD

\* the object state after onTick was called on the first k ticks, one call
\* at a time
RECURSIVE SeqState(_, _, _)
SeqState(s, ticks, k) ==
    IF k = 0 THEN s ELSE onTick(SeqState(s, ticks, k - 1), ticks[k]).st

\* C6: backtestOnTicks returns one signal per tick, the i-th being what
\* onTick returns for the i-th tick when the ticks are applied one at a
\* time from the same starting state, and leaves the same final state.
C6_BatchIsSequential ==
    [][ op' = "backtestOnTicks"
          => /\ Len(ret') = Len(arg')
             /\ \A i \in 1..Len(arg') :
                  ret'[i] = onTick(SeqState(State, arg', i - 1),
                                   arg'[i]).signal
             /\ State' = SeqState(State, arg', Len(arg')) ]_vars

C6_Witness ==
    /\ op = "backtestOnTicks"
    /\ Len(arg) = 2
    /\ ret[1] # HOLD
    /\ ret[2] = HOLD
    /\ arg[2].symbol = symbol_
    /\ Len(hist) > slow_period_ + 1
\* ----------------------------------------------------- indicators: claims
\* finite data of length n with 1 <= period <= n
ValidInput(d, p) ==
    /\ \A i \in 1..Len(d) : d[i] \notin {NaN, Inf}
    /\ 1 <= p
    /\ p <= Len(d)

\* the sum of d[lo..hi], added up from the right end
RECURSIVE WindowSum(_, _, _)
WindowSum(d, lo, hi) ==
    IF lo > hi THEN Zero ELSE RAdd(d[hi], WindowSum(d, lo, hi - 1))

\* C7: on valid input SMA returns n - p + 1 values, the i-th being the
\* arithmetic mean of data[i .. i+p-1] summed afresh.
C7_SMAIsWindowMean ==
    (fn = "SMA" /\ ValidInput(arg_data, arg_period))
      => /\ Len(result) = Len(arg_data) - arg_period + 1
         /\ \A i \in 1..Len(result) :
              result[i] = RDiv(WindowSum(arg_data, i, i + arg_period - 1),
                               FromInt(arg_period))

C7_Witness ==
    /\ fn = "SMA"
    /\ ValidInput(arg_data, arg_period)
    /\ Len(arg_data) = 3
    /\ arg_period = 2
    /\ arg_data[1] # arg_data[2]
    /\ arg_data[1] # arg_data[3]
    /\ arg_data[2] # arg_data[3]

\* C8: SMA, EMA, RollingStdDev and BollingerBands return an empty result
\* (three empty sequences for BollingerBands) when the data is empty, the
\* period is <= 0 or exceeds the length, an element is not finite, or, for
\* BollingerBands, the multiplier is negative.
C8_InvalidGivesEmpty ==
    /\ (fn \in {"SMA", "EMA", "RollingStdDev"}
          /\ ~ValidInput(arg_data, arg_period))
         => result = << >>
    /\ (fn = "BollingerBands"
          /\ (~ValidInput(arg_data, arg_period) \/ arg_multiplier[1] < 0))
         => result = [upper |-> << >>, middle |-> << >>, lower |-> << >>]

C8_Witness ==
    /\ fn = "BollingerBands"
    /\ ValidInput(arg_data, arg_period)
    /\ Len(arg_data) >= 2
    /\ arg_multiplier[1] < 0

\* C9: on valid input with a multiplier >= 0 the three bands have length
\* n - p + 1, middle is SMA(data, period) element by element, and
\* upper - middle = middle - lower = multiplier * RollingStdDev(data, period)
\* at every position.
C9_BandsAroundSMA ==
    (fn = "BollingerBands" /\ ValidInput(arg_data, arg_period)
        /\ arg_multiplier[1] >= 0)
      => LET sma == SMA(arg_data, arg_period)
             dev == RollingStdDev(arg_data, arg_period)
             n == Len(arg_data) - arg_period + 1
         IN  /\ Len(result.upper) = n
             /\ Len(result.middle) = n
             /\ Len(result.lower) = n
             /\ \A i \in 1..n :
                  /\ result.middle[i] = sma[i]
                  /\ RSub(result.upper[i], result.middle[i])
                       = RMul(arg_multiplier, dev[i])
                  /\ RSub(result.middle[i], result.lower[i])
                       = RMul(arg_multiplier, dev[i])

C9_Witness ==
    /\ fn = "BollingerBands"
    /\ ValidInput(arg_data, arg_period)
    /\ arg_multiplier = FromInt(2)
    /\ Len(arg_data) = 3
    /\ arg_period = 2
    /\ result.upper[1] # result.middle[1]
    /\ result.upper[2] # result.middle[2]
    /\ result.upper[1] # result.upper[2]

\* the sum of the squares of d[lo..hi], added up from the right end
RECURSIVE WindowSumSq(_, _, _)
WindowSumSq(d, lo, hi) ==
    IF lo > hi THEN Zero
    ELSE RAdd(RMul(d[hi], d[hi]), WindowSumSq(d, lo, hi - 1))

\* the accumulators of RollingStdDev once the window ends at d[i]
RECURSIVE AccAt(_, _, _)
AccAt(d, p, i) ==
    IF i <= p THEN FirstWindow(d, p)
    ELSE Slide(AccAt(d, p, i - 1), d[i - p], d[i])

\* C10: on valid input RollingStdDev returns n - p + 1 values, none
\* negative, the i-th being StdDev of the window data[i .. i+p-1]; the
\* sliding sum and sum of squares are those of the current window.
C10_RollingIsWindowStdDev ==
    (fn = "RollingStdDev" /\ ValidInput(arg_data, arg_period))
      => /\ Len(result) = Len(arg_data) - arg_period + 1
         /\ \A i \in 1..Len(result) :
              /\ RLe(Zero, result[i])
              /\ result[i] = StdDev(SubSeq(arg_data, i, i + arg_period - 1))
              /\ AccAt(arg_data, arg_period, i + arg_period - 1)
                   = [sum_x |-> WindowSum(arg_data, i, i + arg_period - 1),
                      sum_x2 |-> WindowSumSq(arg_data, i,
                                             i + arg_period - 1)]

C10_Witness ==
    /\ fn = "RollingStdDev"
    /\ ValidInput(arg_data, arg_period)
    /\ Len(arg_data) = 3
    /\ arg_period = 2
    /\ result[1] # Zero
    /\ result[2] # Zero
    /\ result[1] # result[2]
\* the seed of EMA: the simple average of the first p elements
Seed(d, p) == RDiv(WindowSum(d, 1, p), FromInt(p))

\* previous + (2 / (p + 1)) * (x - previous)
Smooth(previous, x, p) ==
    RAdd(previous, RMul(Rat(2, p + 1), RSub(x, previous)))

\* C11 as stated: on valid input EMA returns n values, the one at index
\* p - 1 (position p counting from 1) is the seed, and every later value is
\* previous + (2 / (p + 1)) * (data[i] - previous).
C11_SeedAtPeriod ==
    (fn = "EMA" /\ ValidInput(arg_data, arg_period))
      => /\ Len(result) = Len(arg_data)
         /\ result[arg_period] = Seed(arg_data, arg_period)
         /\ \A i \in (arg_period + 1)..Len(result) :
              result[i] = Smooth(result[i - 1], arg_data[i], arg_period)

\* C11 amended: on valid input EMA returns n values, the one at index 0 is
\* the seed, and every value at an index i >= 1 is
\* previous + (2 / (p + 1)) * (data[i] - previous).
C11_SeedAtStart ==
    (fn = "EMA" /\ ValidInput(arg_data, arg_period))
      => /\ Len(result) = Len(arg_data)
         /\ result[1] = Seed(arg_data, arg_period)
         /\ \A i \in 2..Len(result) :
              result[i] = Smooth(result[i - 1], arg_data[i], arg_period)

C11_Witness ==
    /\ fn = "EMA"
    /\ ValidInput(arg_data, arg_period)
    /\ arg_period = 2
    /\ Len(arg_data) = 4
    /\ result[1] = Seed(arg_data, 2)
    /\ result[2] # result[1]
    /\ result[3] # result[2]
    /\ result[4] # result[3]
\* C12: for 1 <= fast_period < slow_period, at every onTick computation with
\* a full buffer other than the first one the previously stored fast and
\* slow averages are not both zero, so the no-prior HOLD branch of
\* generateSignal is taken at most once.
C12_NoPriorOnlyOnce ==
    [][ ( /\ op' = "onTick"
          /\ arg'[1].symbol = symbol_
          /\ fast_period_ < slow_period_
          /\ Len(hist) >= slow_period_
          /\ Len(prices_') = slow_period_ )
          => ~(fast_ma_ = Zero /\ slow_ma_ = Zero) ]_vars
\* the sum of the prices of s
RECURSIVE Total(_)
Total(s) == IF s = << >> THEN 0 ELSE Head(s) + Total(Tail(s))

\* the mean of the prices of s
Mean(s) == Rat(Total(s), Len(s))

\* C13: for fast_period <= slow_period, while fewer than slow_period
\* matching observations have been processed the stored averages are both
\* 0; afterwards the stored fast average is the mean of the most recent
\* fast_period buffered prices and the stored slow average is the mean of
\* all slow_period buffered prices, whichever signal the last call returned.
C13_StoredAverages ==
    fast_period_ <= slow_period_
      => IF Len(hist) < slow_period_
         THEN fast_ma_ = Zero /\ slow_ma_ = Zero
         ELSE /\ Len(prices_) = slow_period_
              /\ fast_ma_ = Mean(LastN(prices_, fast_period_))
              /\ slow_ma_ = Mean(prices_)

C13_Witness ==
    /\ op = "onTick"
    /\ fast_period_ < slow_period_
    /\ Len(hist) > slow_period_
    /\ ret = << BUY >>
    /\ fast_ma_ = Mean(LastN(prices_, fast_period_))
    /\ slow_ma_ = Mean(prices_)
    /\ fast_ma_ # slow_ma_
    /\ fast_ma_ # Mean(SubSeq(prices_, 1, fast_period_))
\* C14: a strategy constructed with fast_period >= slow_period >= 1 returns
\* HOLD for every observation: it never emits BUY or SELL.
C14_DegenerateHolds ==
    fast_period_ >= slow_period_
      => /\ \A i \in 1..Len(sigs) : sigs[i] = HOLD
         /\ \A i \in 1..Len(ret) : ret[i] = HOLD

C14_Witness ==
    /\ fast_period_ > slow_period_
    /\ op = "onTick"
    /\ arg[1].symbol = symbol_
    /\ ret = << HOLD >>
    /\ Len(hist) >= slow_period_ + 3
    /\ slow_ma_ # Zero
    /\ \E i, j \in slow_period_..Len(hist) : hist[i] < hist[j] /\ i < j
    /\ \E i, j \in slow_period_..Len(hist) : hist[i] > hist[j] /\ i < j

\* C15: a non-HOLD signal is never repeated on the next matching
\* observation: BUY is not followed by BUY and SELL is not followed by SELL.
C15_NoRepeatedSignal ==
    \A i \in 1..(Len(sigs) - 1) : sigs[i] # HOLD => sigs[i + 1] # sigs[i]

C15_Witness ==
    \E i \in 1..(Len(sigs) - 1) :
        /\ sigs[i] = BUY
        /\ sigs[i + 1] = SELL
        /\ fast_period_ < slow_period_
====
